---- MODULE Spec2Model ----
(***************************************************************************)
(* Model of main.py: the /download pipeline (generate, compress_audio),    *)
(* the /audios range server (serve_audio, parse_range_header,              *)
(* make_partial_response, make_entire_response) and the retention sweeper  *)
(* (delete_expired_files, delete_files_task), which share one resource:    *)
(* the audios/ directory and the modification times of its files; the      *)
(* routes / and /search; and the entry point with the threads it starts.   *)
(***************************************************************************)
EXTENDS Integers, Sequences, FiniteSets, TLC

(***************************************************************************)
(* Bounds of the model                                                     *)
(***************************************************************************)
\* number of audio samples of a source video
MediaLen == 1
\* clock ticks per second: time.time() and st_mtime are fractional
Res == 2
\* largest byte position written in a Range header of the pure-function check
MaxPos == 4

(***************************************************************************)
(* Program constants                                                       *)
(***************************************************************************)
\* main.py:28  RETENTION_PERIOD = 2 * 60 * 60
RETENTION_PERIOD == 2 * 60 * 60
\* main.py:74  duration <= 300
DURATION_LIMIT == 300

None == "None"

Max(a, b) == IF a >= b THEN a ELSE b
Min(a, b) == IF a <= b THEN a ELSE b

(***************************************************************************)
(* parse_range_header (main.py:204-217).  A header is a sequence of        *)
(* one-character strings.                                                  *)
(***************************************************************************)
Digits == {"0", "1", "2", "3", "4", "5", "6", "7", "8", "9"}

DigitVal(c) ==
  CASE c = "0" -> 0 [] c = "1" -> 1 [] c = "2" -> 2 [] c = "3" -> 3
    [] c = "4" -> 4 [] c = "5" -> 5 [] c = "6" -> 6 [] c = "7" -> 7
    [] c = "8" -> 8 [] c = "9" -> 9

\* int(s) for a non-empty string of decimal digits
RECURSIVE ToInt(_)
ToInt(s) ==
  IF s = <<>> THEN 0
  ELSE 10 * ToInt(SubSeq(s, 1, Len(s) - 1)) + DigitVal(s[Len(s)])

\* length of the longest run of digits of h that starts at position i
RECURSIVE DigitRun(_, _)
DigitRun(h, i) ==
  IF i <= Len(h) /\ h[i] \in Digits THEN 1 + DigitRun(h, i + 1) ELSE 0

\* re.search(r'(\d+)-(\d*)', h) matches at i: \d+ is greedy, and giving digits
\* back cannot put '-' under the cursor, so the run must be followed by '-'
MatchesAt(h, i) ==
  /\ DigitRun(h, i) >= 1
  /\ i + DigitRun(h, i) <= Len(h)
  /\ h[i + DigitRun(h, i)] = "-"

\* re.search returns the leftmost match, or None (here 0)
MatchPos(h) ==
  IF \E i \in 1..Len(h) : MatchesAt(h, i)
  THEN CHOOSE i \in 1..Len(h) :
         MatchesAt(h, i) /\ \A j \in 1..(i - 1) : ~MatchesAt(h, j)
  ELSE 0

Group1(h) == SubSeq(h, MatchPos(h), MatchPos(h) + DigitRun(h, MatchPos(h)) - 1)

Group2(h) ==
  LET d == MatchPos(h) + DigitRun(h, MatchPos(h)) + 1
  IN  SubSeq(h, d, d + DigitRun(h, d) - 1)

\* main.py:210  the 'else 0' is dead: group(1) is \d+ and never empty
RangeStart(h) == IF Group1(h) # <<>> THEN ToInt(Group1(h)) ELSE 0

\* main.py:211
RangeEnd(h, file_size) ==
  IF Group2(h) # <<>> THEN ToInt(Group2(h)) ELSE file_size - 1

\* main.py:214
ClampStart(start_pos, file_size) == Max(0, Min(start_pos, file_size - 1))

\* a clamp of end_pos that forgets the file size
ClampEnd_NoSize(start_pos, end_pos, file_size) == Max(start_pos, end_pos)

\* main.py:215
ClampEnd(start_pos, end_pos, file_size) ==
  Max(start_pos, Min(end_pos, file_size - 1))

parse_range_header(range_header, file_size) ==
  IF MatchPos(range_header) = 0
  THEN <<0, file_size - 1>>
  ELSE LET s == ClampStart(RangeStart(range_header), file_size)
       IN  <<s, ClampEnd(s, RangeEnd(range_header, file_size), file_size)>>

\* str(n) for n >= 0
RECURSIVE ToStr(_)
ToStr(n) ==
  LET d == <<"0", "1", "2", "3", "4", "5", "6", "7", "8", "9">>
  IN  IF n < 10 THEN <<d[n + 1]>> ELSE ToStr(n \div 10) \o <<d[(n % 10) + 1]>>

BytesEq == <<"b", "y", "t", "e", "s", "=">>
\* the header 'bytes=a-b'
BytesHdr(a, b) == BytesEq \o ToStr(a) \o <<"-">> \o ToStr(b)
\* the header 'bytes=a-'
BytesFrom(a) == BytesEq \o ToStr(a) \o <<"-">>
\* the header 'bytes=-n' (suffix range)
BytesLast(n) == BytesEq \o <<"-">> \o ToStr(n)

(***************************************************************************)
(* The cache directory audios/.  A file is a sequence of bytes with a      *)
(* modification time; a byte is <<kind, value>>: the container header of   *)
(* the encoding, then one byte per audio sample.                           *)
(***************************************************************************)
Ids == {"a"}

Absent == [exists |-> FALSE, content |-> <<>>, mtime |-> 0]

\* the audio of every source video: MediaLen samples
Source == [i \in 1..MediaLen |-> i]

\* the bytes of an encoding of samples: "raw" is what FFmpegExtractAudio
\* leaves (main.py:59-63), "mp3" what AudioSegment.export writes (main.py:48)
Encode(fmt, samples) ==
  <<<<fmt, 0>>>> \o [i \in 1..Len(samples) |-> <<"pcm", samples[i]>>]

\* AudioSegment.from_file: a file without a header cannot be decoded; a
\* truncated file decodes to the samples it holds
Decodable(content) == Len(content) >= 1
Decode(content) == [i \in 1..(Len(content) - 1) |-> content[i + 1][2]]

\* the complete normalized artifact of a video
Artifact == Encode("mp3", Source)

\* 'audios/%(id)s.mp3' as the characters of the file name (main.py:58, 85)
MP3Name(id) == <<id, ".", "m", "p", "3">>

(***************************************************************************)
(* State                                                                   *)
(***************************************************************************)
VARIABLES
  now,      \* the wall clock, in ticks of 1/Res second
  files,    \* audios/: file name stem -> file
  dl,       \* the /download requests: position in generate() and its locals
  sv,       \* the /audios workers: position in serve_audio() and its locals
  out,      \* the response of /audios, /search or / that leaves in this step
  sw,       \* the sweeper thread: position in delete_expired_files()
  rq,       \* a call of parse_range_header: its arguments and its result
  catalog,  \* what the external catalog returns to VideosSearch(q)
  proc,     \* the process started by `python main.py`: its threads and timers
  passes,   \* the calls of delete_expired_files() in progress, each with
            \* its locals
  dir,      \* audios/ as the entry point's sweeper sees it: entry -> file
  watch,    \* what the history below records in this behaviour
  hist      \* history: the bodies clients received, the expiration
            \* timestamps computed and returned

\* the state of the process and of the sweeper threads it starts
vars_entry == <<proc, passes, dir>>

vars == <<now, files, dl, sv, out, sw, rq, catalog, vars_entry, watch, hist>>

\* no response leaves the server in this step
NoResponse ==
  [status |-> 0, filename |-> <<>>, range |-> <<>>, file_size |-> 0,
   start_pos |-> 0, end_pos |-> 0, body |-> <<>>, content_length |-> 0,
   content_range |-> <<>>,
   route |-> "none",     \* the route that answered
   search |-> <<>>,      \* the 'search' array of a /search response
   error |-> "",         \* the 'error' field of a /search response
   probed |-> FALSE,     \* os.path.isfile was called for the request
   unhandled |-> FALSE,  \* the exception left serve_audio: Flask answered
   torn |-> FALSE,       \* the bytes were read while a writer had the file open
   vanished |-> FALSE, stale |-> FALSE, cleared |-> FALSE,
   announced |-> FALSE]

Downloads == {"d1", "d2"}
\* the requests are interchangeable: they are numbered in the order in which
\* they arrive
Earlier(d) == IF d = "d2" THEN {"d1"} ELSE {}
Serves == {"s1"}

\* one retention period, in ticks
Period == RETENTION_PERIOD * Res
\* int(time.time()) (main.py:82, 255)
IntTime(t) == t \div Res

\* what ydl.extract_info(download=False) reports as info_dict.get('duration'):
\* <<FALSE, 0>> is None, <<TRUE, n>> is n seconds
ProbeResults ==
  {<<FALSE, 0>>, <<TRUE, 0>>, <<TRUE, DURATION_LIMIT>>, <<TRUE, DURATION_LIMIT + 1>>}

\* main.py:74  'duration and duration <= 300': None and 0 are falsy
DurationGate(duration) ==
  duration[1] /\ duration[2] # 0 /\ duration[2] <= DURATION_LIMIT

DlIdle ==
  [pc |-> "idle", video |-> None, duration |-> <<FALSE, 0>>, audio |-> <<>>,
   fd |-> "none", status |-> 0, msgs |-> <<>>]

\* the downloads that hold audios/<id>.mp3 open for writing
Writers(id) ==
  {d \in Downloads : dl[d].video = id /\ dl[d].fd = "linked"}

\* a generator that returns without yielding
Emit_Nothing(d, msg) ==
  [dl[d] EXCEPT !.pc = "done", !.audio = <<>>, !.fd = "none"]

\* generate() yields its one message and returns
Emit(d, msg) ==
  [dl[d] EXCEPT !.pc = "done", !.msgs = Append(@, msg), !.audio = <<>>,
                !.fd = "none"]

\* a write to audios/<id>.mp3 through a descriptor: it lands in the directory
\* entry unless the entry was unlinked after the open
WriteThrough(d, content) ==
  IF dl[d].fd = "linked"
  THEN [files EXCEPT ![dl[d].video] =
          [exists |-> TRUE, content |-> content, mtime |-> now]]
  ELSE files

\* main.py:82  expiration_timestamp = int(time.time()) + RETENTION_PERIOD,
\* kept for the behaviours that follow the timestamps
Computed(d, expiration_timestamp) ==
  IF "expiration" \in watch
  THEN [hist EXCEPT !.expiration[d] = expiration_timestamp]
  ELSE hist

\* main.py:91-100: the descriptor carries the expiration_timestamp; the
\* history keeps the latest one returned for the id
Returned(d) ==
  IF "expiration" \in watch
  THEN [hist EXCEPT !.promised[dl[d].video] = Max(@, hist.expiration[d])]
  ELSE hist

(***************************************************************************)
(* /download: download_audio (main.py:156-168) and generate (main.py:54-116)*)
(***************************************************************************)
\* main.py:160-168: a request without video_url is answered 400; otherwise
\* the streamed response (status 200) starts and generate() runs
download_audio(d) ==
  /\ dl[d].pc = "idle"
  /\ \A e \in Earlier(d) : dl[e].pc # "idle"
  /\ \E video_url \in Ids \cup {None} :
       dl' = [dl EXCEPT ![d] =
                IF video_url = None
                THEN [@ EXCEPT !.pc = "done", !.status = 400,
                               !.msgs = <<"param_error">>]
                ELSE [@ EXCEPT !.pc = "probe", !.status = 200,
                               !.video = video_url]]
  /\ UNCHANGED <<rq, catalog, vars_entry, watch, hist, now, files, sv, sw>>
  /\ out' = NoResponse

\* main.py:71-74 and 101-107: the probe and the duration gate; a probe that
\* raises lands in the except clause (main.py:109-116)
generate_probe(d) ==
  /\ dl[d].pc = "probe"
  /\ \/ dl' = [dl EXCEPT ![d] = Emit(d, "error")]
     \/ \E duration \in ProbeResults :
          dl' = [dl EXCEPT ![d] =
                   IF DurationGate(duration)
                   THEN [@ EXCEPT !.pc = "fetch", !.duration = duration]
                   ELSE [Emit(d, "error") EXCEPT !.duration = duration]]
  /\ UNCHANGED <<rq, catalog, vars_entry, watch, hist, now, files, sv, sw>>
  /\ out' = NoResponse

\* main.py:76: extract_info(download=True) starts; with outtmpl
\* 'audios/%(id)s.%(ext)s' and the FFmpegExtractAudio postprocessor
\* (main.py:56-63) the encoder writes audios/<id>.mp3 under that name,
\* overwriting a file that is there. A download that fails before the
\* postprocessor runs writes nothing and raises. While the encoder runs the
\* file holds what is written so far: nothing yet, or all but the last byte.
generate_fetch_begin(d) ==
  /\ dl[d].pc = "fetch"
  /\ \/ /\ dl' = [dl EXCEPT ![d] = Emit(d, "error")]
        /\ files' = files
     \/ \E k \in {0, Len(Encode("raw", Source)) - 1} :
          /\ files' = [files EXCEPT ![dl[d].video] =
                         [exists |-> TRUE,
                          content |-> SubSeq(Encode("raw", Source), 1, k),
                          mtime |-> now]]
          /\ dl' = [dl EXCEPT ![d] = [@ EXCEPT !.pc = "fetching", !.fd = "linked"]]
  /\ UNCHANGED <<rq, catalog, vars_entry, watch, hist, now, sv, sw>>
  /\ out' = NoResponse

\* main.py:76: extract_info returns with the file written, or raises with
\* the file as far as it was written
generate_fetch_end(d) ==
  /\ dl[d].pc = "fetching"
  /\ \/ /\ dl' = [dl EXCEPT ![d] = Emit(d, "error")]
        /\ files' = files
     \/ /\ files' = WriteThrough(d, Encode("raw", Source))
        /\ dl' = [dl EXCEPT ![d] = [@ EXCEPT !.pc = "fetched", !.fd = "none"]]
  /\ UNCHANGED <<rq, catalog, vars_entry, watch, hist, now, sv, sw>>
  /\ out' = NoResponse

\* main.py:77-86 and compress_audio's AudioSegment.from_file (main.py:47):
\* the file is read and decoded
compress_audio_read(d) ==
  /\ dl[d].pc = "fetched"
  /\ LET f == files[dl[d].video]
     IN  dl' = [dl EXCEPT ![d] =
                  IF f.exists /\ Decodable(f.content)
                  THEN [@ EXCEPT !.pc = "export", !.audio = Decode(f.content)]
                  ELSE Emit(d, "error")]
  /\ hist' = Computed(d, IntTime(now) + RETENTION_PERIOD)
  /\ UNCHANGED <<rq, catalog, vars_entry, watch, now, files, sv, sw>>
  /\ out' = NoResponse

\* compress_audio's audio.export(file_path, ...) (main.py:48) opens the very
\* path it read from for writing: the file is truncated (created when it is
\* gone) under its final name, and stays empty while the audio is encoded
compress_audio_export_begin(d) ==
  /\ dl[d].pc = "export"
  /\ files' = [files EXCEPT ![dl[d].video] =
                 [exists |-> TRUE, content |-> <<>>, mtime |-> now]]
  /\ dl' = [dl EXCEPT ![d] = [@ EXCEPT !.pc = "exporting", !.fd = "linked"]]
  /\ UNCHANGED <<rq, catalog, vars_entry, watch, hist, now, sv, sw>>
  /\ out' = NoResponse

\* main.py:48-52 and 89-100: the export completes and the descriptor is
\* yielded; an export that raises leaves the file as far as it was written,
\* is re-raised by compress_audio and lands in the except clause
\* (main.py:109-116), as does a failure in building the descriptor
compress_audio_export_end(d) ==
  /\ dl[d].pc = "exporting"
  /\ \/ /\ dl' = [dl EXCEPT ![d] = Emit(d, "error")]
        /\ files' = files
     \/ /\ files' = WriteThrough(d, Encode("mp3", dl[d].audio))
        /\ \E msg \in {"descriptor", "error"} :
             dl' = [dl EXCEPT ![d] = Emit(d, msg)]
  /\ hist' = IF dl'[d].msgs = <<"descriptor">> THEN Returned(d) ELSE hist
  /\ UNCHANGED <<rq, catalog, vars_entry, watch, now, sv, sw>>
  /\ out' = NoResponse

(***************************************************************************)
(* /audios/<path:filename>: serve_audio (main.py:170-202)                  *)
(***************************************************************************)
\* the file names requested: the artifacts, a path with '..', an absolute
\* path and a name that no download produces
Filenames ==
  {MP3Name(id) : id \in Ids}
    \cup {<<".", ".", "/", "x">>, <<"/", "x">>, <<"n", ".", "m", "p", "3">>}

\* the Range headers requested; <<>> is a request without the header
ServedRanges == {<<>>, BytesHdr(0, 1)}

\* a name check that forgets the leading '/'
UnsafeName_DotsOnly(filename) ==
  \E i \in 1..(Len(filename) - 1) : filename[i] = "." /\ filename[i + 1] = "."

\* main.py:178
UnsafeName(filename) ==
  \/ \E i \in 1..(Len(filename) - 1) : filename[i] = "." /\ filename[i + 1] = "."
  \/ (Len(filename) >= 1 /\ filename[1] = "/")

\* the directory entry os.path.join(root_dir, 'audios', filename) names
FileId(filename) ==
  IF \E id \in Ids : filename = MP3Name(id)
  THEN CHOOSE id \in Ids : filename = MP3Name(id)
  ELSE None

\* the file audios/<id>.mp3 as it is now was already there, and older than
\* the retention period, when a sweep pass that has since completed started
Stale(id) ==
  id # None /\ files[id].exists /\ <<id, files[id].mtime>> \in sw.swept

\* the file audios/<id>.mp3 as it is now was examined by a sweep pass that has
\* since completed, with the whole second of the start of the pass more than
\* RETENTION_PERIOD past its modification time, and its removal did not raise
Cleared(id) ==
  id # None /\ files[id].exists /\ <<id, files[id].mtime>> \in sw.cleared

\* os.path.isfile(file_path) (main.py:182)
IsFile(filename) == FileId(filename) # None /\ files[FileId(filename)].exists

\* a worker of the server and the locals of the request it handles
SvIdle ==
  [pc |-> "idle", filename |-> <<>>, range |-> <<>>, file_size |-> 0,
   start_pos |-> 0, end_pos |-> 0, fd |-> "none", snap |-> <<>>,
   \* history of the request, read by no action:
   vanished |-> FALSE,  \* the sweeper removed the file after the existence check
   stale |-> FALSE,     \* the file was overdue at the start of a past sweep pass
   cleared |-> FALSE,   \* a past sweep pass found the file expired and its
                        \* removal raised no error
   announced |-> FALSE] \* a download had returned the descriptor of the
                        \* file (recorded for the client that compares bodies)

\* the response to the request r: make_response(text, code)
Answer(r, code) ==
  [NoResponse EXCEPT !.route = "audios",
                     !.status = code, !.filename = r.filename,
                     !.range = r.range, !.file_size = r.file_size,
                     !.start_pos = r.start_pos, !.end_pos = r.end_pos,
                     !.probed = (r.pc # "idle"),
                     !.vanished = r.vanished, !.stale = r.stale,
                     !.cleared = r.cleared, !.announced = r.announced]

\* file.read(n) after file.seek(pos): at most n bytes, all of them when n < 0
ReadAt(content, pos, n) ==
  IF n < 0 THEN SubSeq(content, pos + 1, Len(content))
  ELSE SubSeq(content, pos + 1, Min(Len(content), pos + n))

\* a download of the id has returned its descriptor
Produced(id) ==
  \E d \in Downloads :
    dl[d].video = id /\ dl[d].pc = "done" /\ dl[d].msgs = <<"descriptor">>

\* main.py:174-183: a request arrives at a free worker; the name check, then
\* the existence check
serve_audio(s) ==
  /\ sv[s].pc = "idle"
  /\ \E filename \in Filenames :
       LET r == [SvIdle EXCEPT !.filename = filename,
                               !.stale = Stale(FileId(filename)),
                               !.cleared = Cleared(FileId(filename)),
                               !.announced =
                                 ("bodies" \in watch
                                    /\ Produced(FileId(filename)))]
       IN  IF UnsafeName(filename)
           THEN sv' = sv /\ out' = Answer(r, 400)
           ELSE IF ~IsFile(filename)
           THEN sv' = sv /\ out' = [Answer(r, 404) EXCEPT !.probed = TRUE]
           ELSE /\ sv' = [sv EXCEPT ![s] = [r EXCEPT !.pc = "getsize"]]
                /\ out' = NoResponse
  /\ UNCHANGED <<rq, catalog, vars_entry, watch, hist, now, files, dl, sw>>

\* main.py:186-192: os.path.getsize stands outside every try block: when the
\* file is gone the exception leaves serve_audio and Flask answers 500.
\* Otherwise the Range header, when there is one, is resolved.
serve_audio_getsize(s) ==
  /\ sv[s].pc = "getsize"
  /\ \E range_header \in ServedRanges :
       LET f == files[FileId(sv[s].filename)]
           size == Len(f.content)
           rng == parse_range_header(range_header, size)
       IN  IF ~f.exists
           THEN /\ sv' = [sv EXCEPT ![s] = SvIdle]
                /\ out' = [Answer(sv[s], 500) EXCEPT !.unhandled = TRUE]
           ELSE /\ sv' = [sv EXCEPT ![s] =
                            IF range_header # <<>>
                            THEN [@ EXCEPT !.pc = "open", !.file_size = size,
                                           !.range = range_header,
                                           !.start_pos = rng[1],
                                           !.end_pos = rng[2]]
                            ELSE [@ EXCEPT !.pc = "open", !.file_size = size]]
                /\ out' = NoResponse
  /\ UNCHANGED <<rq, catalog, vars_entry, watch, hist, now, files, dl, sw>>

\* an except clause that reports the missing file as not found
ReadError_NotFound(r) == Answer(r, 404)

\* main.py:234-236 and 249-251: the except clause of the two response
\* builders answers 500
ReadError(r) == Answer(r, 500)

\* main.py:222 and 241: open(file_path, 'rb'); a missing file raises inside
\* the try block
serve_audio_open(s) ==
  /\ sv[s].pc = "open"
  /\ IF ~files[FileId(sv[s].filename)].exists
     THEN /\ sv' = [sv EXCEPT ![s] = SvIdle]
          /\ out' = ReadError(sv[s])
     ELSE /\ sv' = [sv EXCEPT ![s] = [@ EXCEPT !.pc = "read", !.fd = "linked"]]
          /\ out' = NoResponse
  /\ UNCHANGED <<rq, catalog, vars_entry, watch, hist, now, files, dl, sw>>

\* make_partial_response (main.py:223-232)
make_partial_response(r, content) ==
  LET content_length == r.end_pos - r.start_pos + 1
  IN  [Answer(r, 206) EXCEPT
         !.body = ReadAt(content, r.start_pos, content_length),
         !.content_range = <<r.start_pos, r.end_pos, r.file_size>>,
         !.content_length = content_length]

\* make_entire_response (main.py:242-247)
make_entire_response(r, content) ==
  [Answer(r, 200) EXCEPT !.body = content, !.content_length = r.file_size]

\* history: the first body a client received for a file and a Range header,
\* on a request that arrived after a download had announced the file, read
\* while no download had the file open for writing
Received(response) ==
  IF /\ "bodies" \in watch
     /\ ~response.torn
     /\ response.announced
     /\ ~\E b \in hist.bodies :
           b[1] = response.filename /\ b[2] = response.range
  THEN [hist EXCEPT !.bodies =
          @ \cup {<<response.filename, response.range, response.body>>}]
  ELSE hist

\* the read through the open descriptor: the bytes of the directory entry,
\* or those the file had when it was unlinked after the open
serve_audio_read(s) ==
  /\ sv[s].pc = "read"
  /\ LET id == FileId(sv[s].filename)
         content == IF sv[s].fd = "linked" THEN files[id].content ELSE sv[s].snap
         response == IF sv[s].range # <<>>
                     THEN make_partial_response(sv[s], content)
                     ELSE make_entire_response(sv[s], content)
     IN  out' = [response EXCEPT
                   !.torn = (sv[s].fd = "linked" /\ Writers(id) # {})]
  /\ sv' = [sv EXCEPT ![s] = SvIdle]
  /\ hist' = Received(out')
  /\ UNCHANGED <<rq, catalog, vars_entry, watch, now, files, dl, sw>>

(***************************************************************************)
(* The sweeper: delete_files_task (main.py:275-281) and                    *)
(* delete_expired_files (main.py:253-273)                                  *)
(***************************************************************************)
SwIdle ==
  [pc |-> "timer", current_timestamp |-> 0, listing |-> <<>>, cur |-> None,
   \* history of the passes, read by no action of the sweeper:
   started |-> 0,  \* the instant at which the running pass started
   due |-> {},     \* <<id, mtime>> of the files older than the retention
                   \* period when the running pass started
   seen |-> {},    \* <<id, mtime>> of the files the running pass examined
   failed |-> {},  \* the files whose removal raised in the running pass
   swept |-> {},   \* the files that were due in a pass that has completed
   cleared |-> {}] \* the files a completed pass examined and found expired
                   \* by the whole second of its start, and whose removal
                   \* did not raise

\* the whole second of instant t is more than RETENTION_PERIOD seconds past
\* the modification time m
WholeSecondPast(t, m) == (t \div Res) * Res > m + Period

\* the files older than the retention period at this instant
Overdue == {<<id, files[id].mtime>> : id \in {i \in Ids : files[i].exists /\ now - files[i].mtime > Period}}

\* the orders in which os.listdir may return the entries
Listings ==
  LET present == {id \in Ids : files[id].exists}
  IN  {l \in UNION {[1..n -> present] : n \in 0..Cardinality(Ids)} :
         /\ Len(l) = Cardinality(present)
         /\ \A i, j \in 1..Len(l) : i # j => l[i] # l[j]}

\* a removal that empties the file and keeps its name
Unlink_Truncate(id) == [files EXCEPT ![id] = [@ EXCEPT !.content = <<>>]]

\* a comparison turned around
Expired_Lt(current_timestamp, mtime) ==
  current_timestamp * Res < mtime + RETENTION_PERIOD * Res

\* main.py:265  current_timestamp > getmtime(file_path) + RETENTION_PERIOD,
\* with the modification time in ticks
Expired(current_timestamp, mtime) ==
  current_timestamp * Res > mtime + RETENTION_PERIOD * Res

\* main.py:277, 255-261: the timer fires (at startup: the direct call), the
\* pass takes the time and lists the directory
delete_expired_files_begin ==
  /\ sw.pc = "timer"
  /\ \E l \in Listings :
       sw' = [sw EXCEPT !.pc = "loop",
                        !.current_timestamp = IntTime(now),
                        !.listing = l,
                        !.started = now, !.due = Overdue,
                        !.seen = {}, !.failed = {}]
  /\ UNCHANGED <<rq, catalog, vars_entry, watch, hist, now, files, dl, sv>>
  /\ out' = NoResponse

\* main.py:262-265: the next entry is examined
delete_expired_files_check ==
  /\ sw.pc = "loop"
  /\ sw.listing # <<>>
  /\ LET id == Head(sw.listing)
         f == files[id]
         look == IF f.exists THEN {<<id, f.mtime>>} ELSE {}
     IN  sw' = IF f.exists /\ Expired(sw.current_timestamp, f.mtime)
               THEN [sw EXCEPT !.pc = "remove", !.cur = id,
                               !.seen = @ \cup look]
               ELSE [sw EXCEPT !.listing = Tail(@), !.seen = @ \cup look]
  /\ UNCHANGED <<rq, catalog, vars_entry, watch, hist, now, files, dl, sv>>
  /\ out' = NoResponse

\* the directory after os.remove of an entry
Unlink(id) == [files EXCEPT ![id] = Absent]

\* main.py:266-270: os.remove; it raises when the file is gone, and may
\* raise for a file that is there (permissions, a file in use); the error is
\* logged and the loop goes on. Descriptors open on the file keep its bytes.
delete_expired_files_remove ==
  /\ sw.pc = "remove"
  /\ LET id == sw.cur
     IN  \/ /\ files[id].exists
            /\ files' = Unlink(id)
            /\ dl' = [d \in Downloads |->
                        IF dl[d].video = id /\ dl[d].fd = "linked"
                        THEN [dl[d] EXCEPT !.fd = "detached"] ELSE dl[d]]
            /\ sv' = [s \in Serves |->
                        IF FileId(sv[s].filename) # id THEN sv[s]
                        ELSE IF sv[s].fd = "linked"
                        THEN [sv[s] EXCEPT !.fd = "detached",
                                           !.snap = files[id].content,
                                           !.vanished = TRUE]
                        ELSE IF sv[s].pc \in {"getsize", "open"}
                        THEN [sv[s] EXCEPT !.vanished = TRUE]
                        ELSE sv[s]]
            /\ sw' = [sw EXCEPT !.pc = "loop", !.listing = Tail(@),
                                !.cur = None]
         \/ /\ UNCHANGED <<files, dl, sv>>
            /\ sw' = [sw EXCEPT !.pc = "loop", !.listing = Tail(@),
                                !.cur = None, !.failed = @ \cup {id}]
  /\ UNCHANGED <<rq, catalog, vars_entry, watch, hist, now>>
  /\ out' = NoResponse

\* main.py:279-281: the pass is over and the next one is scheduled
delete_files_task ==
  /\ sw.pc = "loop"
  /\ sw.listing = <<>>
  /\ sw' = [sw EXCEPT
              !.pc = "timer",
              !.swept = @ \cup sw.due,
              !.cleared = @ \cup {p \in sw.seen :
                                    /\ WholeSecondPast(sw.started, p[2])
                                    /\ p[1] \notin sw.failed},
              !.due = {}, !.seen = {}, !.failed = {}]
  /\ UNCHANGED <<rq, catalog, vars_entry, watch, hist, now, files, dl, sv>>
  /\ out' = NoResponse

(***************************************************************************)
(* The clock                                                               *)
(***************************************************************************)
\* the instants the clock visits: the start, a fraction of a second past one
\* retention period, and a whole second past it
Instants == {0, Period + 1, Period + Res}

Tick ==
  /\ \E t \in Instants : t > now /\ now' = t
  /\ UNCHANGED <<rq, catalog, vars_entry, watch, hist, files, dl, sv, sw>>
  /\ out' = NoResponse

(***************************************************************************)
(* The entry point (main.py:293-296): the main thread calls                *)
(* delete_files_task() and keep_alive() and ends; the server thread and    *)
(* every Timer are daemon threads (main.py:280, 290).  The sweeper is      *)
(* followed here call by call (isfile, getmtime, os.remove) over a         *)
(* directory of several entries.                                           *)
(***************************************************************************)
\* the program is not running through its entry point
NotStarted ==
  [main |-> "none", alive |-> FALSE, flask |-> FALSE, timers |-> 0,
   started |-> 0, finished |-> 0]

\* the directory entries of the entry point's sweeper
Entries == {"a.mp3", "b.mp3", "a.webm"}

\* the number of sweep passes followed
MaxPasses == 2

\* the intermediate file of a download: yt-dlp writes the stream it fetches
\* to audios/<id>.<ext> (main.py:58) and the FFmpegExtractAudio
\* postprocessor (main.py:59-63) removes it once the mp3 is written
Intermediate == "a.webm"

\* the orders in which os.listdir may return the entries of dir
EntryListings ==
  LET present == {e \in Entries : dir[e].exists}
      n == Cardinality(present)
  IN  {l \in [1..n -> present] : \A i, j \in 1..n : i # j => l[i] # l[j]}

\* a call of delete_files_task() by the thread t, before its first line
NewPass(t) ==
  [thread |-> t, pc |-> "time", current_timestamp |-> 0, listing |-> <<>>,
   cur |-> "none",
   \* history of the pass, read by no action:
   due |-> {},        \* the entries listed that were expired when listed
   failed |-> {},     \* the entries on which a call raised
   aborted |-> FALSE] \* the outer except clause ended the loop

\* the sequence without its element i
Drop(seq, i) == SubSeq(seq, 1, i - 1) \o SubSeq(seq, i + 1, Len(seq))

\* the next entry of the loop, or the end of delete_expired_files()
Advance(pass) ==
  IF Len(pass.listing) <= 1
  THEN [pass EXCEPT !.pc = "schedule", !.listing = <<>>, !.cur = "none"]
  ELSE [pass EXCEPT !.pc = "isfile", !.listing = Tail(@), !.cur = "none"]

\* two timers started at the end of a pass
Scheduled_Twice(timers) == timers + 2

\* main.py:279-281: timer.start() leaves one more timer pending
Scheduled(timers) == timers + 1

\* main.py:295: the main thread calls delete_files_task()
main_delete_files_task ==
  /\ proc.alive /\ proc.main = "task"
  /\ proc' = [proc EXCEPT !.main = "in_task", !.started = @ + 1]
  /\ passes' = Append(passes, NewPass("main"))
  /\ UNCHANGED <<now, files, dl, sv, out, sw, rq, catalog, dir, watch, hist>>

\* a Timer started at main.py:281 fires: its thread calls delete_files_task
timer_fires ==
  /\ proc.alive /\ proc.timers > 0
  /\ proc.started < MaxPasses
  /\ proc' = [proc EXCEPT !.timers = @ - 1, !.started = @ + 1]
  /\ passes' = Append(passes, NewPass("timer"))
  /\ UNCHANGED <<now, files, dl, sv, out, sw, rq, catalog, dir, watch, hist>>

\* main.py:255-261: the time is taken, the directory exists (main.py:18) and
\* is listed
delete_expired_files_listdir(i) ==
  /\ proc.alive /\ passes[i].pc = "time"
  /\ \E l \in EntryListings :
       passes' = [passes EXCEPT ![i] =
         [@ EXCEPT !.pc = IF l = <<>> THEN "schedule" ELSE "isfile",
                   !.current_timestamp = IntTime(now),
                   !.listing = l,
                   !.due = {l[k] : k \in {j \in 1..Len(l) :
                              Expired(IntTime(now), dir[l[j]].mtime)}}]]
  /\ UNCHANGED <<now, files, dl, sv, out, sw, rq, catalog, proc, dir, watch,
                 hist>>

\* main.py:262-264: os.path.isfile(file_path); an entry that is gone is
\* passed over
delete_expired_files_isfile(i) ==
  /\ proc.alive /\ passes[i].pc = "isfile"
  /\ LET file_name == Head(passes[i].listing)
     IN  passes' = [passes EXCEPT ![i] =
           IF dir[file_name].exists
           THEN [@ EXCEPT !.pc = "getmtime", !.cur = file_name]
           ELSE Advance(@)]
  /\ UNCHANGED <<now, files, dl, sv, out, sw, rq, catalog, proc, dir, watch,
                 hist>>

\* main.py:265: os.path.getmtime(file_path) stands in the condition of the
\* if, outside the inner try: for an entry that has gone since isfile it
\* raises FileNotFoundError into the outer except clause (main.py:272-273),
\* which ends the loop
delete_expired_files_getmtime(i) ==
  /\ proc.alive /\ passes[i].pc = "getmtime"
  /\ LET file_name == passes[i].cur
     IN  passes' = [passes EXCEPT ![i] =
           IF ~dir[file_name].exists
           THEN [@ EXCEPT !.pc = "schedule", !.listing = <<>>,
                          !.cur = "none", !.aborted = TRUE,
                          !.failed = @ \cup {file_name}]
           ELSE IF Expired(@.current_timestamp, dir[file_name].mtime)
           THEN [@ EXCEPT !.pc = "remove"]
           ELSE Advance(@)]
  /\ UNCHANGED <<now, files, dl, sv, out, sw, rq, catalog, proc, dir, watch,
                 hist>>

\* main.py:266-270: os.remove(file_path); when it raises (the file is gone,
\* or the permission is missing) the error is logged and the loop goes on
delete_expired_files_os_remove(i) ==
  /\ proc.alive /\ passes[i].pc = "remove"
  /\ LET file_name == passes[i].cur
     IN  \/ /\ dir[file_name].exists
            /\ dir' = [dir EXCEPT ![file_name] = Absent]
            /\ passes' = [passes EXCEPT ![i] = Advance(@)]
         \/ /\ dir' = dir
            /\ passes' = [passes EXCEPT ![i] =
                 [Advance(@) EXCEPT !.failed = @ \cup {file_name}]]
  /\ UNCHANGED <<now, files, dl, sv, out, sw, rq, catalog, proc, watch, hist>>

\* main.py:277-281: delete_expired_files() has returned; the next Timer is
\* created as a daemon and started, and delete_files_task() returns
delete_files_task_schedule(i) ==
  /\ proc.alive /\ passes[i].pc = "schedule"
  /\ proc' = [proc EXCEPT
                !.timers = Scheduled(@),
                !.finished = @ + 1,
                !.main = IF passes[i].thread = "main" THEN "keep_alive" ELSE @]
  /\ passes' = Drop(passes, i)
  /\ UNCHANGED <<now, files, dl, sv, out, sw, rq, catalog, dir, watch, hist>>

\* main.py:296, 287-291: keep_alive() starts the server in a daemon thread
\* and returns; the main thread has nothing left to run
keep_alive ==
  /\ proc.alive /\ proc.main = "keep_alive"
  /\ proc' = [proc EXCEPT !.main = "ended", !.flask = TRUE]
  /\ UNCHANGED <<now, files, dl, sv, out, sw, rq, catalog, passes, dir,
                 watch, hist>>

\* the interpreter exits once the main thread has ended and no thread other
\* than daemon threads is left (main.py:280, 290): the server thread, the
\* pending Timer and a pass in progress end with the process
interpreter_exit ==
  /\ proc.alive /\ proc.main = "ended"
  /\ proc' = [proc EXCEPT !.alive = FALSE, !.flask = FALSE, !.timers = 0]
  /\ passes' = <<>>
  /\ UNCHANGED <<now, files, dl, sv, out, sw, rq, catalog, dir, watch, hist>>

\* main.py:76 in a request thread of the server: yt-dlp creates the
\* intermediate file of a download
ydl_download ==
  /\ proc.alive /\ proc.flask
  /\ ~dir[Intermediate].exists
  /\ dir' = [dir EXCEPT ![Intermediate] =
               [exists |-> TRUE, content |-> <<>>, mtime |-> now]]
  /\ UNCHANGED <<now, files, dl, sv, out, sw, rq, catalog, proc, passes,
                 watch, hist>>

\* main.py:76, 59-63: the postprocessor has written the mp3 and removes the
\* intermediate file
ydl_postprocess ==
  /\ proc.alive /\ proc.flask
  /\ dir[Intermediate].exists
  /\ dir' = [dir EXCEPT ![Intermediate] = Absent]
  /\ UNCHANGED <<now, files, dl, sv, out, sw, rq, catalog, proc, passes,
                 watch, hist>>

\* the steps of the threads that run delete_files_task()
NextPass ==
  \E i \in 1..Len(passes) :
    \/ delete_expired_files_listdir(i)
    \/ delete_expired_files_isfile(i)
    \/ delete_expired_files_getmtime(i)
    \/ delete_expired_files_os_remove(i)
    \/ delete_files_task_schedule(i)

NextEntry ==
  \/ main_delete_files_task
  \/ timer_fires
  \/ NextPass
  \/ keep_alive
  \/ interpreter_exit
  \/ ydl_download
  \/ ydl_postprocess

(***************************************************************************)
(* / and /search: nothing (main.py:38-42) and search (main.py:118-154)     *)
(***************************************************************************)
\* main.py:127  VideosSearch(q, limit=15): the number of results, bounded
MaxResults == 2
\* main.py:139  total_seconds < 300
SEARCH_LIMIT == 300

\* the 'duration' a catalog result carries: <<FALSE, <<>>>> is None (a live
\* stream), <<TRUE, text>> is the text, "" for a result without the key
\* (main.py:132)
Durations ==
  {<<FALSE, <<>>>>,
   <<TRUE, <<>>>>,
   <<TRUE, <<"4", ":", "5", "9">>>>,
   <<TRUE, <<"5", ":", "0", "0">>>>,
   <<TRUE, <<"5", ":", "0", "1">>>>,
   <<TRUE, <<"1", ":", "0", "0", ":", "0", "0">>>>}

\* the results the catalog can return: result i has title i and link i
Catalogs ==
  UNION {{[i \in 1..k |-> [title |-> i, link |-> i, duration |-> ds[i]]] :
            ds \in [1..k -> Durations]} : k \in 0..MaxResults}

\* request.args.get('q'): <<FALSE, <<>>>> is None, <<TRUE, text>> the text
Queries == {<<FALSE, <<>>>>, <<TRUE, <<>>>>, <<TRUE, <<"q">>>>}

\* duration.split(":")
RECURSIVE Split(_)
Split(text) ==
  IF \E i \in 1..Len(text) : text[i] = ":"
  THEN LET i == CHOOSE i \in 1..Len(text) :
                  text[i] = ":" /\ \A j \in 1..(i - 1) : text[j] # ":"
       IN  <<SubSeq(text, 1, i - 1)>> \o Split(SubSeq(text, i + 1, Len(text)))
  ELSE <<text>>

\* int(part) returns: a non-empty run of digits (anything else raises
\* ValueError, main.py:145)
IsInt(part) == part # <<>> /\ \A i \in 1..Len(part) : part[i] \in Digits

\* main.py:139
UnderLimit(total_seconds) == total_seconds < SEARCH_LIMIT

\* main.py:132-146: the test the loop applies to one result whose duration
\* is a text
Kept(text) ==
  /\ \E i \in 1..Len(text) : text[i] = ":"
  /\ LET parts == Split(text)
     IN  /\ Len(parts) = 2
         /\ IsInt(parts[1]) /\ IsInt(parts[2])
         /\ UnderLimit(ToInt(parts[1]) * 60 + ToInt(parts[2]))

\* main.py:129-146: search_results after the loop over the results
RECURSIVE search_results(_)
search_results(results) ==
  IF results = <<>> THEN <<>>
  ELSE LET video == Head(results)
       IN  (IF Kept(video.duration[2])
            THEN <<[title |-> video.title, url |-> video.link]>>
            ELSE <<>>) \o search_results(Tail(results))

\* the response of a route other than /audios
Reply(route, code) == [NoResponse EXCEPT !.route = route, !.status = code]

\* main.py:120-154: the whole handler. A q that is missing or empty is
\* answered with an error (status 200); VideosSearch may raise, and
\* '":" in duration' raises TypeError for a duration of None: both land in
\* the outer except clause (500).
search ==
  /\ \E q \in Queries, raises \in BOOLEAN :
       out' =
         IF ~q[1] \/ q[2] = <<>>
         THEN [Reply("search", 200) EXCEPT !.error = "Invalid search query"]
         ELSE IF raises \/ \E i \in 1..Len(catalog) : ~catalog[i].duration[1]
         THEN [Reply("search", 500) EXCEPT !.error = "Search failed"]
         ELSE [Reply("search", 200) EXCEPT !.search = search_results(catalog)]
  /\ UNCHANGED <<now, files, dl, sv, sw, rq, catalog, vars_entry, watch, hist>>

\* main.py:38-42: the index route answers with a fixed message
nothing ==
  /\ out' = Reply("index", 200)
  /\ UNCHANGED <<now, files, dl, sv, sw, rq, catalog, vars_entry, watch, hist>>

(***************************************************************************)
(* Specification                                                           *)
(***************************************************************************)
\* nothing recorded
NoHistory ==
  [bodies |-> {}, expiration |-> [d \in Downloads |-> 0],
   promised |-> [id \in Ids |-> -1]]

RqIdle == [pc |-> "idle", header |-> <<>>, size |-> 0, result |-> <<0, 0>>]

InitService ==
  /\ now = 0
  /\ files = [id \in Ids |-> Absent]
  /\ dl = [d \in Downloads |-> DlIdle]
  /\ sv = [s \in Serves |-> SvIdle]
  /\ out = NoResponse
  /\ sw = SwIdle
  /\ catalog = <<>>
  /\ proc = NotStarted
  /\ passes = <<>>
  /\ dir = [e \in Entries |-> Absent]
  /\ hist = NoHistory

Init ==
  /\ InitService
  /\ rq = RqIdle
  /\ watch = {}

\* the steps of one /download request
generate(d) ==
  \/ generate_probe(d)
  \/ generate_fetch_begin(d)
  \/ generate_fetch_end(d)
  \/ compress_audio_read(d)
  \/ compress_audio_export_begin(d)
  \/ compress_audio_export_end(d)

\* the steps of the /download requests
NextDownload == \E d \in Downloads : download_audio(d) \/ generate(d)

\* the steps of the /audios requests
NextServe ==
  \E s \in Serves :
    \/ serve_audio(s)
    \/ serve_audio_getsize(s)
    \/ serve_audio_open(s)
    \/ serve_audio_read(s)

\* the steps of the sweeper thread
NextSweep ==
  \/ delete_expired_files_begin
  \/ delete_expired_files_check
  \/ delete_expired_files_remove
  \/ delete_files_task

\* the whole service
Next == NextDownload \/ NextServe \/ NextSweep \/ Tick

Spec == Init /\ [][Next]_vars

\* the writers of the cache directory alone: no step of an /audios request
\* changes now, files, dl or sw
NextPipeline == NextDownload \/ NextSweep \/ Tick

SpecPipeline == Init /\ [][NextPipeline]_vars

\* the thread of a request keeps running, and the calls it makes into yt_dlp
\* and pydub return or raise
SpecPipelineFair ==
  SpecPipeline /\ \A d \in Downloads : WF_vars(generate(d))

\* the service with one /download request already answered 400 for its
\* missing video_url: the other request, the /audios requests, the sweeper
\* and the clock
InitFrame ==
  /\ now = 0
  /\ files = [id \in Ids |-> Absent]
  /\ dl = [d \in Downloads |->
            IF Earlier(d) = {}
            THEN [DlIdle EXCEPT !.pc = "done", !.status = 400,
                                !.msgs = <<"param_error">>]
            ELSE DlIdle]
  /\ sv = [s \in Serves |-> SvIdle]
  /\ out = NoResponse
  /\ sw = SwIdle
  /\ rq = RqIdle
  /\ catalog = <<>>
  /\ proc = NotStarted
  /\ passes = <<>>
  /\ dir = [e \in Entries |-> Absent]
  /\ watch = {}
  /\ hist = NoHistory

\* every route of the service, the sweeper and the clock
NextFrame == Next \/ search \/ nothing

SpecFrame == InitFrame /\ [][NextFrame]_vars

\* /search and / on their own, for every catalog of the sample
InitSearch ==
  /\ now = 0
  /\ files = [id \in Ids |-> Absent]
  /\ dl = [d \in Downloads |-> DlIdle]
  /\ sv = [s \in Serves |-> SvIdle]
  /\ out = NoResponse
  /\ sw = SwIdle
  /\ rq = RqIdle
  /\ catalog \in Catalogs
  /\ proc = NotStarted
  /\ passes = <<>>
  /\ dir = [e \in Entries |-> Absent]
  /\ watch = {}
  /\ hist = NoHistory

NextSearch == search \/ nothing

SpecSearch == InitSearch /\ [][NextSearch]_vars

\* the downloads and the /audios requests, with a client that keeps the
\* bodies it receives
InitRepeat ==
  /\ InitService
  /\ rq = RqIdle
  /\ watch = {"bodies"}

NextRepeat == NextDownload \/ NextServe

SpecRepeat == InitRepeat /\ [][NextRepeat]_vars

\* the downloads, the sweeper and the clock, with the expiration timestamps
\* of the descriptors kept
InitPromise ==
  /\ InitService
  /\ rq = RqIdle
  /\ watch = {"expiration"}

SpecPromise == InitPromise /\ [][NextPipeline]_vars

\* `python main.py`: the files a previous run left in audios/ are old or
\* young; the clock stands a whole second past one retention period
InitEntry ==
  /\ now = Period + Res
  /\ files = [id \in Ids |-> Absent]
  /\ dl = [d \in Downloads |-> DlIdle]
  /\ sv = [s \in Serves |-> SvIdle]
  /\ out = NoResponse
  /\ sw = SwIdle
  /\ rq = RqIdle
  /\ catalog = <<>>
  /\ proc = [NotStarted EXCEPT !.main = "task", !.alive = TRUE]
  /\ passes = <<>>
  /\ dir \in [Entries ->
               {Absent,
                [exists |-> TRUE, content |-> <<>>, mtime |-> 0],
                [exists |-> TRUE, content |-> <<>>, mtime |-> now]}]
  /\ ~dir[Intermediate].exists
  /\ watch = {}
  /\ hist = NoHistory

SpecEntry == InitEntry /\ [][NextEntry]_vars

\* every thread that can take a step takes it, and the interpreter exits
\* when it can
SpecEntryFair ==
  /\ SpecEntry
  /\ WF_vars(main_delete_files_task) /\ WF_vars(timer_fires)
  /\ WF_vars(NextPass) /\ WF_vars(keep_alive) /\ WF_vars(interpreter_exit)

(***************************************************************************)
(* parse_range_header on its own: every header of the sample and every     *)
(* file size                                                               *)
(***************************************************************************)
\* the characters of the arbitrary headers
HeaderChars == {"=", "-", "0", "1", "7", ","}

\* all sequences over HeaderChars of length at most n
Strings(n) == UNION {[1..k -> HeaderChars] : k \in 0..n}

RangeHeaders ==
  Strings(3)
    \cup {BytesHdr(a, b) : a, b \in 0..MaxPos}
    \cup {BytesFrom(a) : a \in 0..MaxPos}
    \cup {BytesLast(a) : a \in 0..MaxPos}

InitRange ==
  /\ InitService
  /\ watch = {}
  /\ \E h \in RangeHeaders, n \in 0..(MaxPos + 1) :
       rq = [RqIdle EXCEPT !.header = h, !.size = n]

\* the call parse_range_header(range_header, file_size) (main.py:192)
CallParseRange ==
  /\ rq.pc = "idle"
  /\ rq' = [rq EXCEPT !.pc = "done",
                       !.result = parse_range_header(rq.header, rq.size)]
  /\ UNCHANGED <<now, files, dl, sv, sw, out, catalog, vars_entry, watch, hist>>

SpecRange == InitRange /\ [][CallParseRange]_vars

(***************************************************************************)
(* Properties                                                              *)
(***************************************************************************)

\* the interval parse_range_header returned is a byte range of a file of
\* rq.size bytes
ValidRange == 0 <= rq.result[1] /\ rq.result[1] <= rq.result[2] /\ rq.result[2] <= rq.size - 1

\* a header bytes=a-b with 0 <= a <= b < size comes back as (a, b)
InRangeUnchanged ==
  \A a, b \in 0..MaxPos :
    (rq.header = BytesHdr(a, b) /\ a <= b /\ b < rq.size) => rq.result = <<a, b>>

\* C7 as stated: for every Range header and every file size, the empty file
\* included, parse_range_header returns (start, end) with
\* 0 <= start <= end <= size-1, and a header bytes=a-b with 0 <= a <= b < size
\* comes back unchanged.
C7_AnySize == rq.pc = "done" => (ValidRange /\ InRangeUnchanged)

\* C7, amended: for every Range header and every size of a non-empty file,
\* parse_range_header returns (start, end) with 0 <= start <= end <= size-1,
\* and a header bytes=a-b with 0 <= a <= b < size comes back unchanged. (No
\* interval satisfies the bound for an empty file: (0, 0) or (0, -1) is
\* returned.)
C7_NonEmpty ==
  rq.pc = "done" => ((rq.size >= 1 => ValidRange) /\ InRangeUnchanged)

\* an end position beyond the file was clamped to the last byte
C7_Witness ==
  /\ rq.pc = "done"
  /\ rq.size >= 1
  /\ rq.header = BytesHdr(1, MaxPos)
  /\ rq.size - 1 < MaxPos
  /\ rq.result[2] = rq.size - 1

\* a response with content leaves the server
Served == out.status \in {200, 206}

\* C1: serve_audio never answers 200 or 206 with bytes read from
\* audios/<id>.mp3 while a download (the fetch/encode step or compress_audio's
\* re-export) has that file open for writing under its final name.
C1_NoReadOfFileBeingWritten == Served => ~out.torn

\* C2: once two /download requests for the same reference have both completed
\* with a descriptor, the file audios/<id>.mp3, as long as it is there, is
\* the complete normalized artifact.
C2_BothDoneComplete ==
  \A d, e \in Downloads :
    ( /\ d # e
      /\ dl[d].video = dl[e].video
      /\ dl[d].pc = "done" /\ dl[d].msgs = <<"descriptor">>
      /\ dl[e].pc = "done" /\ dl[e].msgs = <<"descriptor">>
      /\ files[dl[d].video].exists )
    => files[dl[d].video].content = Artifact

\* the step that ends a sweep pass
PassEnds == sw.pc = "loop" /\ sw'.pc = "timer"

\* C3 as stated: after a complete pass of delete_expired_files every file that was older
\* than RETENTION_PERIOD when the pass started is gone (as the file it was),
\* and no step of the pass touches a file that is younger than
\* RETENTION_PERIOD.
C3_Retention ==
  [][ /\ PassEnds =>
           \A p \in sw.due :
             ~(files'[p[1]].exists /\ files'[p[1]].mtime = p[2])
      /\ sw' # sw =>
           \A id \in Ids :
             (files[id].exists /\ now - files[id].mtime < Period)
               => files'[id] = files[id] ]_vars

C5_OneMessage ==
  \A d \in Downloads :
    dl[d].video # None =>
      /\ dl[d].status = 200
      /\ dl[d].pc # "done" => dl[d].msgs = <<>>
      /\ dl[d].pc = "done" => dl[d].msgs \in {<<"descriptor">>, <<"error">>}

\* C5: every /download request that carries a video_url terminates, with
\* status 200 and exactly one message: the descriptor or an error object,
\* whichever step of generate() failed.
C5_ExactlyOneMessage ==
  /\ []C5_OneMessage
  /\ \A d \in Downloads : (dl[d].video # None) ~> (dl[d].pc = "done")

\* a download that passed the duration gate, failed later and ended with the
\* error message
C5_Witness ==
  \E d \in Downloads :
    /\ dl[d].pc = "done"
    /\ dl[d].duration = <<TRUE, DURATION_LIMIT>>
    /\ dl[d].msgs = <<"error">>

\* C6: when the probed duration is unknown or above 300 seconds generate()
\* emits an error and leaves the cache directory unchanged; when it is at most
\* 300 seconds (300 included) it proceeds to the fetch.
C6_DurationGate ==
  [][ \A d \in Downloads :
        (dl[d].pc = "probe" /\ dl'[d].pc # "probe") =>
          LET duration == dl'[d].duration
          IN  /\ (~duration[1] \/ duration[2] > DURATION_LIMIT) =>
                   /\ dl'[d].pc = "done"
                   /\ dl'[d].msgs = <<"error">>
                   /\ files' = files
              /\ (duration[1] /\ duration[2] <= DURATION_LIMIT) =>
                   dl'[d].pc = "fetch" ]_vars

\* a response to a request for a file that passed the existence check, other
\* than an error
Delivered == out.status \notin {0, 400, 404, 500}

\* C8: a file served with a Range header is answered 206, with Content-Range
\* 'bytes start-end/size' for an interval inside the file, Content-Length
\* end-start+1 and a body of exactly end-start+1 bytes.
C8_PartialResponse ==
  (Delivered /\ out.range # <<>>) =>
    /\ out.status = 206
    /\ out.content_range = <<out.start_pos, out.end_pos, out.file_size>>
    /\ 0 <= out.start_pos
    /\ out.start_pos <= out.end_pos
    /\ out.end_pos <= out.file_size - 1
    /\ out.content_length = out.end_pos - out.start_pos + 1
    /\ Len(out.body) = out.end_pos - out.start_pos + 1

\* C9: a file served without a Range header is answered 200, with
\* Content-Length equal to the file size and to the length of the body.
C9_EntireResponse ==
  (Delivered /\ out.range = <<>>) =>
    /\ out.status = 200
    /\ out.content_length = out.file_size
    /\ Len(out.body) = out.content_length

\* C10 as stated: a request whose file a sweep pass deleted after the existence
\* check and before the read completed ends with 500.
C10_DeletedMeans500 == (out.status # 0 /\ out.vanished) => out.status = 500

\* C10, amended: a request whose file is absent when serve_audio calls getsize
\* or open (a sweep pass deleted it after the existence check) ends with 500;
\* a file deleted after the open is still read through the open descriptor
\* and the request is answered 200 or 206; a request for a file that is
\* absent at the existence check ends with 404; and after any answer the
\* service takes the next request.
C10_AbsentMeans500 ==
  /\ [][ \A s \in Serves :
           LET r == sv[s]
               id == FileId(r.filename)
           IN  /\ (r.pc \in {"getsize", "open"} /\ sv'[s].pc # r.pc
                     /\ ~files[id].exists)
                    => out'.status = 500
               /\ (r.pc = "read" /\ sv'[s].pc # "read")
                    => out'.status \in {200, 206}
               /\ (r.pc = "idle" /\ out'.status # 0
                     /\ ~UnsafeName(out'.filename)
                     /\ ~IsFile(out'.filename))
                    => out'.status = 404 ]_vars
  /\ [](out.status # 0 => \E s \in Serves : ENABLED serve_audio(s))

\* a request whose file was deleted between the existence check and the
\* getsize call, answered 500
C10_Witness ==
  /\ out.vanished
  /\ out.unhandled
  /\ out.status = 500

\* the names the service must refuse: a '..' anywhere, or a leading '/'
Refused(filename) ==
  \/ \E i \in 1..Len(filename) :
       i < Len(filename) /\ SubSeq(filename, i, i + 1) = <<".", ".">>
  \/ (filename # <<>> /\ Head(filename) = "/")

\* C11: every /audios request whose name contains '..' or starts with '/' is
\* answered 400 without a call of os.path.isfile, and no worker carries such a
\* name to the size query, the open or the read.
C11_UnsafeNameRefusedFirst ==
  /\ (out.status # 0 /\ Refused(out.filename)) =>
        (out.status = 400 /\ ~out.probed)
  /\ \A s \in Serves : sv[s].pc # "idle" => ~Refused(sv[s].filename)

\* a request for the absolute path /x, answered 400
C11_Witness ==
  /\ out.status = 400
  /\ out.filename = <<"/", "x">>
  /\ ~out.probed

\* C12: a response with content to an /audios request carries the same body
\* as the response a client received earlier for the same file and the same
\* Range header, whatever downloads ran in between or alongside.
C12_SameBytesAgain ==
  out.status \in {200, 206} =>
    \A b \in hist.bodies :
      (b[1] = out.filename /\ b[2] = out.range) => b[3] = out.body

\* the step is one of the sweeper thread
SweeperStep == sw' # sw

\* C13: no step of a request handler removes a file from the cache directory;
\* a step of serve_audio, search or nothing leaves every file as it is
\* (presence, content, mtime); and a step of the sweeper leaves every file it
\* does not remove as it is.
C13_OnlySweeperRemoves ==
  [][ /\ ~SweeperStep =>
           \A id \in Ids : files[id].exists => files'[id].exists
      /\ (~SweeperStep
            /\ (sv' # sv \/ out'.route \in {"audios", "search", "index"})) =>
           files' = files
      /\ SweeperStep =>
           \A id \in Ids : files'[id] = files[id] \/ ~files'[id].exists ]_vars

\* the sweeper has removed a file that a download had written
C13_Witness ==
  /\ sw.pc = "loop"
  /\ \E p \in sw.seen : p[1] \notin sw.failed /\ ~files[p[1]].exists
  /\ \E d \in Downloads : dl[d].pc = "done" /\ dl[d].msgs = <<"descriptor">>

\* total seconds of a duration text M:SS or H:MM:SS
Seconds(text) ==
  LET parts == Split(text)
  IN  IF Len(parts) = 2 THEN ToInt(parts[1]) * 60 + ToInt(parts[2])
      ELSE ToInt(parts[1]) * 3600 + ToInt(parts[2]) * 60 + ToInt(parts[3])

\* the results of the catalog that do not exceed five minutes, in order
RECURSIVE UpToFiveMinutes(_)
UpToFiveMinutes(results) ==
  IF results = <<>> THEN <<>>
  ELSE LET video == Head(results)
       IN  (IF Seconds(video.duration[2]) <= 5 * 60
            THEN <<[title |-> video.title, url |-> video.link]>>
            ELSE <<>>) \o UpToFiveMinutes(Tail(results))

\* every result of the catalog carries a duration M:SS or H:MM:SS
AllTimed ==
  \A i \in 1..Len(catalog) :
    catalog[i].duration[1] /\ Len(Split(catalog[i].duration[2])) \in {2, 3}

\* C16: when every result of the catalog carries its duration, a /search
\* response with a search array lists exactly the results that do not exceed
\* five minutes, each with its title and url.
C16_SearchFilter ==
  (out.route = "search" /\ out.status = 200 /\ out.error = "" /\ AllTimed)
    => out.search = UpToFiveMinutes(catalog)

\* C17: no step removes audios/<id>.mp3 at a time earlier than or equal to an
\* expiration_timestamp that a descriptor for the id has carried.
C17_NotDeletedBeforeExpiration ==
  [][ \A id \in Ids :
        (files[id].exists /\ ~files'[id].exists /\ hist.promised[id] # -1)
          => now > hist.promised[id] * Res ]_vars

\* C14: when delete_expired_files() returns, every entry the pass listed as
\* expired is gone, except an entry on which a call of the pass raised: a
\* failure on one entry costs no other entry its deletion in that pass.
C14_FailureSkipsOneEntry ==
  \A i \in 1..Len(passes) :
    passes[i].pc = "schedule" =>
      \A e \in passes[i].due \ passes[i].failed : ~dir[e].exists

\* C15: every sweep pass that has ended is followed by the start of another
\* one (up to the number of passes followed).
C15_PassesRecur ==
  \A n \in 1..(MaxPasses - 1) : (proc.finished = n) ~> (proc.started > n)

\* C18: while the process runs, the sweep passes in progress and the sweep
\* timers pending are never more than one together.
C18_OneSweeper ==
  /\ Len(passes) + proc.timers <= 1
  /\ proc.timers >= 0

\* a pass started by a timer is running, and no timer is pending
C18_Witness ==
  /\ proc.alive
  /\ Len(passes) = 1
  /\ passes[1].thread = "timer"
  /\ passes[1].pc = "remove"
  /\ proc.timers = 0

====
